---- MODULE Spec2Model ----
(***************************************************************************)
(* The persistent store of the AI Tutor application (src/database.py):     *)
(* class Database over one shared sqlite3 connection.                      *)
(*                                                                         *)
(* Tables are sets of rows (records).  A nullable column holds NULL (the   *)
(* empty tuple) or <<v>>.  Every statement the code hands to the engine is *)
(* one atomic step; a method that issues several statements               *)
(* (use_invite_link, add_user) is one step per statement, so that calls of *)
(* several threads on the shared connection (check_same_thread = False)    *)
(* interleave between statements.                                          *)
(*                                                                         *)
(* Spec         the invite ledger (create / use / list / delete invites)    *)
(* SpecUsers    the users table (add_user)                                 *)
(* SpecSubscription  add_user and update_user_subscription                 *)
(* SpecQuiz     quizzes and their questions                                *)
(* SpecAttempts quiz attempts and their completion                         *)
(* SpecHistory  quizzes, quiz attempts and the quiz history of a user      *)
(* SpecResponses  questions, attempts and the responses recorded for them  *)
(* SpecReports  progress reports and their email status                    *)
(* SpecConnection  get_connection and close_connection called by threads   *)
(* SpecStore    the inserts into all seven tables and delete_invite_link   *)
(* SpecSchema   initialize_db called again between inserts                 *)
(* SpecFaults   the operations that report a storage fault as False        *)
(* SpecMutations  the operations that update a row, of all tables          *)
(***************************************************************************)
EXTENDS Integers, Sequences, FiniteSets, TLC

\* ------------------------------------------------------------ bounds ----
\* Last reading of the clock.
MaxTime == 2
\* Clock readings per calendar day.
TicksPerDay == 2
\* Largest expires_in_days passed to create_invite_link.
MaxTtlDays == 1
\* Rows ever inserted into invite_links.
MaxInvites == 2
\* Calls of use_invite_link in one run (one thread each).
NumCalls == 2
\* Calls of add_user in one run (one thread each).
NumAddCalls == 3
\* Consecutive clock readings that fall into one second of CURRENT_TIMESTAMP.
TicksPerSecond == 2
\* Rows ever inserted into quizzes, questions, quiz_attempts,
\* question_responses and progress_reports.
MaxQuizzes == 2
MaxQuestions == 3
MaxAttempts == 2
MaxResponses == 2
MaxReports == 2
\* Threads that call get_connection and close_connection.
NumThreads == 2
\* Storage handles ever opened by sqlite3.connect.
MaxHandles == 4
\* Calls of initialize_db after the constructor's.
MaxEnsures == 2

\* ------------------------------------------------------- value sets ----
NULL == <<>>
UserIds == {1, 2}
Tokens == {"tokA", "tokB"}
InviteEmails == {NULL}
Usernames == {"alice", "bob"}
UserEmails == {NULL, <<"a@x">>, <<"b@x">>}
PasswordHashes == {"h1", "h2"}
Calls == 1 .. NumCalls
AddCalls == 1 .. NumAddCalls
FaultKinds == {"none", "statement", "commit_busy", "commit_rollback"}
SubscriptionExpiries == {NULL, <<MaxTime>>}
QuizIds == 1 .. MaxQuizzes
QuestionIds == 1 .. MaxQuestions
AttemptIds == 1 .. MaxAttempts
ResponseIds == 1 .. MaxResponses
ReportIds == 1 .. MaxReports
Titles == {"Algebra"}
SourceMaterials == {"notes"}
QuizCreators == {NULL, <<1>>}
QuestionTexts == {"2+2?"}
QuestionTypes == {"multiple_choice", "short_answer"}
CorrectAnswers == {"4"}
\* options: absent, or the caller's serialized list, kept here item by item.
OptionTexts == {NULL, << <<"3", "4", "5">> >>, << <<"5", "4", "3">> >>}
UserResponses == {"4"}
Scores == {3, 4}
MaxScores == {5, 6}
ReportTitles == {"Monthly"}
ReportPaths == {"/r.pdf"}
Addresses == {"p@x", "q@x"}
Threads == 1 .. NumThreads
Tables == {"users", "invite_links", "quizzes", "questions", "quiz_attempts",
           "question_responses", "progress_reports"}

\* ------------------------------------------------------------ state ----
VARIABLES
    now,            \* the wall clock, datetime.datetime.now()
    invite_links,   \* table invite_links, as the shared connection sees it
    invite_seq,     \* sqlite_sequence of invite_links (AUTOINCREMENT)
    pc,             \* use_invite_link: position of each call
    arg,            \* use_invite_link: [token, user_id] of each call
    invite,         \* use_invite_link: the fetched row, [id, expires_at], or NULL
    ret,            \* use_invite_link: the value returned
    users,          \* table users
    user_seq,       \* sqlite_sequence of users
    upc,            \* add_user: position of each call
    uarg,           \* add_user: the arguments of each call
    lastrowid,      \* add_user: cursor.lastrowid of each call
    uret,           \* add_user: the value returned
    quizzes,        \* table quizzes
    quiz_seq,       \* sqlite_sequence of quizzes
    questions,      \* table questions
    question_seq,   \* sqlite_sequence of questions
    quiz_attempts,  \* table quiz_attempts
    attempt_seq,    \* sqlite_sequence of quiz_attempts
    question_responses, \* table question_responses
    response_seq,   \* sqlite_sequence of question_responses
    started_clock,  \* history: the clock reading at which each attempt was started
    overwritten,    \* history: the completion the latest complete_quiz_attempt replaced
    progress_reports,   \* table progress_reports
    report_seq,     \* sqlite_sequence of progress_reports
    conn,           \* self.conn: NULL (None) or <<h>>, the handle it refers to
    handles,        \* the storage handles that are open
    handle_seq,     \* how many handles sqlite3.connect has opened so far
    cpc,            \* get_connection / close_connection: position of each thread
    got,            \* what the latest get_connection of each thread returned
    schema,         \* the tables that exist in the database file
    ensured         \* history: calls of initialize_db after the constructor's

inviteVars == <<now, invite_links, invite_seq, pc, arg, invite, ret>>
userVars == <<users, user_seq, upc, uarg, lastrowid, uret>>
learningVars == <<quizzes, quiz_seq, questions, question_seq, quiz_attempts,
                  attempt_seq, question_responses, response_seq,
                  started_clock, overwritten>>
reportVars == <<progress_reports, report_seq>>
connVars == <<conn, handles, handle_seq, cpc, got>>
schemaVars == <<schema, ensured>>
vars == <<now, invite_links, invite_seq, pc, arg, invite, ret,
          users, user_seq, upc, uarg, lastrowid, uret,
          quizzes, quiz_seq, questions, question_seq, quiz_attempts,
          attempt_seq, question_responses, response_seq,
          started_clock, overwritten, progress_reports, report_seq,
          conn, handles, handle_seq, cpc, got, schema, ensured>>

\* ------------------------------------------------- time and its text ----
\* The separators of the two textual forms of a datetime, as character codes.
SP == 32
TEE == 84

\* A datetime as text is <<date, separator, time of day>>: fixed-width fields,
\* so that comparing the fields in order is comparing the strings.
\* sqlite3's default adapter binds a datetime parameter as isoformat(" ").
adapt_datetime(t) == <<t \div TicksPerDay, SP, t % TicksPerDay>>

\* datetime.isoformat() separates date and time by "T".
isoformat(t) == <<t \div TicksPerDay, TEE, t % TicksPerDay>>

\* datetime.fromisoformat accepts either separator.
fromisoformat(s) == s[1] * TicksPerDay + s[3]

\* SQLite's comparison of two TEXT values (BINARY collation): a > b.
TextGreater(a, b) ==
    \/ a[1] > b[1]
    \/ a[1] = b[1] /\ a[2] > b[2]
    \/ a[1] = b[1] /\ a[2] = b[2] /\ a[3] > b[3]

\* ------------------------------------------------------ the clock ------
Tick ==
    /\ now < MaxTime
    /\ now' = now + 1
    /\ UNCHANGED <<invite_links, invite_seq, pc, arg, invite, ret>>
    /\ UNCHANGED userVars
    /\ UNCHANGED <<learningVars, reportVars, connVars, schemaVars>>

\* ------------------------------------------------- invite_links rows ----
\* INSERT INTO invite_links (token, email, created_by, expires_at): the other
\* columns take their defaults (created_at CURRENT_TIMESTAMP, used 0, NULLs).
\* created_at is kept as the reading of the clock at the INSERT: it is only
\* ever compared with other created_at values.
NewInviteRow(id, token, email, created_by, expires_at) ==
    [id |-> id, token |-> token, email |-> email, created_by |-> created_by,
     created_at |-> now, expires_at |-> expires_at,
     used |-> FALSE, used_by |-> NULL, used_at |-> NULL]

\* A faulty schema: token declared without UNIQUE.
TokenTaken_NoUnique(token) == FALSE

\* UNIQUE (token): the INSERT raises sqlite3.IntegrityError.
TokenTaken(token) == \E r \in invite_links : r.token = token

\* A faulty lookup: the SELECT without "AND used = 0".
SelectUnusedByToken_AnyRow(token) ==
    {r \in invite_links : r.token = token}

\* SELECT id, expires_at FROM invite_links WHERE token = ? AND used = 0
SelectUnusedByToken(token) ==
    {r \in invite_links : r.token = token /\ ~r.used}

\* A faulty expiry test: the comparison turned round.
IsExpired_Reversed(expires_at, t) == fromisoformat(expires_at) > t

\* if expires_at < datetime.datetime.now()
IsExpired(expires_at, t) == fromisoformat(expires_at) < t

\* A faulty UPDATE: the WHERE clause left out.
MarkUsed_NoWhere(id, user_id) ==
    {[r EXCEPT !.used = TRUE, !.used_by = <<user_id>>, !.used_at = <<now>>] :
        r \in invite_links}

\* UPDATE invite_links SET used = 1, used_by = ?, used_at = CURRENT_TIMESTAMP
\* WHERE id = ?
MarkUsed(id, user_id) ==
    {IF r.id = id
        THEN [r EXCEPT !.used = TRUE, !.used_by = <<user_id>>, !.used_at = <<now>>]
        ELSE r : r \in invite_links}

\* SELECT * FROM invite_links
\* WHERE created_by = ? AND used = 0 AND expires_at > ?      (? = now_iso)
SelectActive(creator_id, now_iso) ==
    {r \in invite_links :
        r.created_by = creator_id /\ ~r.used /\ TextGreater(r.expires_at, now_iso)}

\* ORDER BY created_at DESC: every listing of the rows that is non-increasing in
\* created_at (the engine leaves the order of equal keys open).
OrderByCreatedDesc(rows) ==
    {s \in [1 .. Cardinality(rows) -> rows] :
        /\ \A i, j \in DOMAIN s : i # j => s[i] # s[j]
        /\ \A i, j \in DOMAIN s : i < j => s[i].created_at >= s[j].created_at}

\* DELETE FROM invite_links WHERE id = ?
DeleteById(id) == {r \in invite_links : r.id # id}

\* ------------------------------------------------ create_invite_link ----
\* A faulty schema: id declared without AUTOINCREMENT, so that the engine
\* gives a new row the largest stored id plus one.
create_invite_link_MaxRowid(created_by, email, expires_in_days, token, retval) ==
    /\ invite_seq < MaxInvites
    /\ LET expires_at == adapt_datetime(now + expires_in_days * TicksPerDay)
           stored == {r.id : r \in invite_links}
           id == IF stored = {} THEN 1
                 ELSE (CHOOSE i \in stored : \A j \in stored : j <= i) + 1
       IN  IF TokenTaken(token)
             THEN /\ retval = NULL
                  /\ UNCHANGED <<invite_links, invite_seq>>
             ELSE /\ invite_links' = invite_links \cup
                        {NewInviteRow(id, token, email, created_by, expires_at)}
                  /\ invite_seq' = id
                  /\ retval = <<id, token>>
    /\ UNCHANGED <<now, pc, arg, invite, ret>>
    /\ UNCHANGED userVars
    /\ UNCHANGED <<learningVars, reportVars, connVars, schemaVars>>

\* token: what secrets.token_urlsafe(32) drew.  retval: the (invite_id, token)
\* returned, or NULL when the INSERT raised IntegrityError out of the method.
create_invite_link(created_by, email, expires_in_days, token, retval) ==
    /\ invite_seq < MaxInvites
    /\ LET expires_at == adapt_datetime(now + expires_in_days * TicksPerDay)
           id == invite_seq + 1
       IN  IF TokenTaken(token)
             THEN /\ retval = NULL
                  /\ UNCHANGED <<invite_links, invite_seq>>
             ELSE /\ invite_links' = invite_links \cup
                        {NewInviteRow(id, token, email, created_by, expires_at)}
                  /\ invite_seq' = id
                  /\ retval = <<id, token>>
    /\ UNCHANGED <<now, pc, arg, invite, ret>>
    /\ UNCHANGED userVars
    /\ UNCHANGED <<learningVars, reportVars, connVars, schemaVars>>

\* --------------------------------------------------- use_invite_link ----
\* lines 274-285: the SELECT, fetchone, "if not invite: return False"
use_invite_link_select(c, token, user_id) ==
    /\ pc[c] = "idle"
    /\ \A d \in Calls : d < c => pc[d] # "idle"   \* calls are numbered as they start
    /\ arg' = [arg EXCEPT ![c] = <<[token |-> token, user_id |-> user_id]>>]
    /\ LET rows == SelectUnusedByToken(token)
       IN  IF rows = {}
             THEN /\ pc' = [pc EXCEPT ![c] = "done"]
                  /\ ret' = [ret EXCEPT ![c] = <<FALSE>>]
                  /\ UNCHANGED invite
             ELSE /\ \E r \in rows :
                        invite' = [invite EXCEPT ![c] =
                            <<[id |-> r.id, expires_at |-> r.expires_at]>>]
                  /\ pc' = [pc EXCEPT ![c] = "fetched"]
                  /\ UNCHANGED ret
    /\ UNCHANGED <<now, invite_links, invite_seq>>
    /\ UNCHANGED userVars
    /\ UNCHANGED <<learningVars, reportVars, connVars, schemaVars>>

\* lines 287-296: parse expires_at, "if expires_at < now: return False".
\* The stored text is always what the adapter wrote, so fromisoformat does
\* not raise ValueError (lines 291-293).
use_invite_link_check(c) ==
    /\ pc[c] = "fetched"
    /\ IF IsExpired(invite[c][1].expires_at, now)
         THEN /\ pc' = [pc EXCEPT ![c] = "done"]
              /\ ret' = [ret EXCEPT ![c] = <<FALSE>>]
         ELSE /\ pc' = [pc EXCEPT ![c] = "checked"]
              /\ UNCHANGED ret
    /\ UNCHANGED <<now, invite_links, invite_seq, arg, invite>>
    /\ UNCHANGED userVars
    /\ UNCHANGED <<learningVars, reportVars, connVars, schemaVars>>

\* lines 298-305: the UPDATE, commit, "return True"
use_invite_link_update(c) ==
    /\ pc[c] = "checked"
    /\ invite_links' = MarkUsed(invite[c][1].id, arg[c][1].user_id)
    /\ pc' = [pc EXCEPT ![c] = "done"]
    /\ ret' = [ret EXCEPT ![c] = <<TRUE>>]
    /\ UNCHANGED <<now, invite_seq, arg, invite>>
    /\ UNCHANGED userVars
    /\ UNCHANGED <<learningVars, reportVars, connVars, schemaVars>>

\* --------------------------------------- get_active_invites_by_creator ----
\* The lists the method may return in the current state (one per order the
\* engine may give rows of equal created_at).
get_active_invites_by_creator(creator_id) ==
    LET now_iso == isoformat(now)
    IN  OrderByCreatedDesc(SelectActive(creator_id, now_iso))

\* A call of the method: it reads and returns, and writes nothing.
get_active_invites_by_creator_call(creator_id) ==
    /\ get_active_invites_by_creator(creator_id) # {}
    /\ UNCHANGED inviteVars
    /\ UNCHANGED userVars
    /\ UNCHANGED <<learningVars, reportVars, connVars, schemaVars>>

\* ------------------------------------------------ delete_invite_link ----
\* fault: where sqlite3.Error is raised, if at all.  "statement": execute
\* raises and deletes nothing.  "commit_busy": the DELETE ran, commit raises
\* and the transaction stays open on the shared connection with the delete in
\* it.  "commit_rollback": commit raises and the engine rolls the delete back.
\* retval: the value returned.
delete_invite_link(invite_id, fault, retval) ==
    /\ LET rowcount == Cardinality({r \in invite_links : r.id = invite_id})
       IN  CASE fault = "none" ->
                  /\ invite_links' = DeleteById(invite_id)
                  /\ retval = (rowcount > 0)
             [] fault = "commit_busy" ->
                  /\ invite_links' = DeleteById(invite_id)
                  /\ retval = FALSE
             [] OTHER ->
                  /\ UNCHANGED invite_links
                  /\ retval = FALSE
    /\ UNCHANGED <<now, invite_seq, pc, arg, invite, ret>>
    /\ UNCHANGED userVars
    /\ UNCHANGED <<learningVars, reportVars, connVars, schemaVars>>

\* ------------------------------------------------------------- users ----
\* sqlite3 binds a Python bool as the integer 0 or 1.
adapt_bool(b) == IF b THEN 1 ELSE 0

\* bool(v) of the integer read back from a BOOLEAN column.
bool(v) == v # 0

\* INSERT INTO users (username, password_hash, email, is_admin): the other
\* columns take their defaults.
NewUserRow(id, username, password_hash, email, is_admin) ==
    [id |-> id, username |-> username, password_hash |-> password_hash,
     email |-> email, created_at |-> now, subscription_active |-> FALSE,
     subscription_expires |-> NULL, is_admin |-> adapt_bool(is_admin)]

\* A faulty schema: email declared without UNIQUE.
UserUniqueViolation_UsernameOnly(username, email) ==
    \E u \in users : u.username = username

\* A faulty schema: username declared without UNIQUE.
UserUniqueViolation_EmailOnly(username, email) ==
    \E u \in users : email # NULL /\ u.email = email

\* username TEXT UNIQUE NOT NULL, email TEXT UNIQUE: the INSERT raises
\* sqlite3.IntegrityError.  NULL emails are distinct from one another.
UserUniqueViolation(username, email) ==
    \E u \in users : u.username = username \/ (email # NULL /\ u.email = email)

\* lines 172-176 and 179-181: the INSERT; on IntegrityError "return -1"
add_user_insert(c, username, password_hash, email, is_admin) ==
    /\ upc[c] = "idle"
    /\ \A d \in AddCalls : d < c => upc[d] # "idle"   \* calls are numbered as they start
    /\ uarg' = [uarg EXCEPT ![c] = <<[username |-> username,
                    password_hash |-> password_hash, email |-> email,
                    is_admin |-> is_admin]>>]
    /\ IF UserUniqueViolation(username, email)
         THEN /\ upc' = [upc EXCEPT ![c] = "done"]
              /\ uret' = [uret EXCEPT ![c] = <<-1>>]
              /\ UNCHANGED <<users, user_seq, lastrowid>>
         ELSE /\ users' = users \cup
                    {NewUserRow(user_seq + 1, username, password_hash, email, is_admin)}
              /\ user_seq' = user_seq + 1
              /\ lastrowid' = [lastrowid EXCEPT ![c] = <<user_seq + 1>>]
              /\ upc' = [upc EXCEPT ![c] = "inserted"]
              /\ UNCHANGED uret
    /\ UNCHANGED inviteVars
    /\ UNCHANGED <<learningVars, reportVars, connVars, schemaVars>>

\* lines 177-178: commit, "return cursor.lastrowid"
add_user_commit(c) ==
    /\ upc[c] = "inserted"
    /\ upc' = [upc EXCEPT ![c] = "done"]
    /\ uret' = [uret EXCEPT ![c] = lastrowid[c]]
    /\ UNCHANGED <<users, user_seq, uarg, lastrowid>>
    /\ UNCHANGED inviteVars
    /\ UNCHANGED <<learningVars, reportVars, connVars, schemaVars>>

\* lines 213-221: SELECT * FROM users WHERE id = ?; the row as a dict, or None
get_user_by_id(user_id) ==
    LET rows == {u \in users : u.id = user_id}
    IN  IF rows = {} THEN NULL ELSE <<CHOOSE u \in rows : TRUE>>

\* A faulty test: the is_admin flag of the row is not looked at.
is_user_admin_NoFlag(user_id) ==
    LET user == get_user_by_id(user_id)
    IN  user # NULL

\* lines 233-234: user is not None and bool(user.get('is_admin', 0))
is_user_admin(user_id) ==
    LET user == get_user_by_id(user_id)
    IN  IF user = NULL THEN FALSE ELSE bool(user[1].is_admin)

\* A call of the method: it reads and returns, and writes nothing.
is_user_admin_call(user_id) ==
    /\ is_user_admin(user_id) \in BOOLEAN
    /\ UNCHANGED vars

InitUsers ==
    /\ users = {}
    /\ user_seq = 0
    /\ upc = [c \in AddCalls |-> "idle"]
    /\ uarg = [c \in AddCalls |-> NULL]
    /\ lastrowid = [c \in AddCalls |-> NULL]
    /\ uret = [c \in AddCalls |-> NULL]

\* ------------------------------------------------ CURRENT_TIMESTAMP ----
\* SQLite's CURRENT_TIMESTAMP is the text 'YYYY-MM-DD HH:MM:SS': the clock cut
\* to whole seconds.  The text is of fixed width, so it is kept as the number
\* of the second: comparing the numbers is comparing the texts.
CURRENT_TIMESTAMP(t) == t \div TicksPerSecond

\* The rows of a table in rowid order: what a SELECT without ORDER BY over a
\* table without secondary index returns.
RECURSIVE OrderById(_)
OrderById(rows) ==
    IF rows = {} THEN <<>>
    ELSE LET first == CHOOSE r \in rows : \A q \in rows : r.id <= q.id
         IN  <<first>> \o OrderById(rows \ {first})

\* ----------------------------------------------------------- quizzes ----
\* INSERT INTO quizzes (title, source_material, created_by)
NewQuizRow(id, title, source_material, created_by) ==
    [id |-> id, title |-> title, source_material |-> source_material,
     created_at |-> CURRENT_TIMESTAMP(now), created_by |-> created_by]

\* lines 341-350.  retval: the quiz id returned (cursor.lastrowid).
create_quiz(title, source_material, created_by, retval) ==
    /\ quiz_seq < MaxQuizzes
    /\ quizzes' = quizzes \cup
          {NewQuizRow(quiz_seq + 1, title, source_material, created_by)}
    /\ quiz_seq' = quiz_seq + 1
    /\ retval = quiz_seq + 1
    /\ UNCHANGED <<questions, question_seq, quiz_attempts, attempt_seq,
                   question_responses, response_seq, started_clock, overwritten>>
    /\ UNCHANGED <<inviteVars, userVars, reportVars, connVars, schemaVars>>

\* --------------------------------------------------------- questions ----
\* A faulty INSERT: the options column left out.
NewQuestionRow_NoOptions(id, quiz_id, question_text, question_type, correct_answer, options) ==
    [id |-> id, quiz_id |-> quiz_id, question_text |-> question_text,
     question_type |-> question_type, correct_answer |-> correct_answer,
     options |-> NULL]

\* INSERT INTO questions (quiz_id, question_text, question_type,
\* correct_answer, options): a str bound to a TEXT column is stored as it is.
NewQuestionRow(id, quiz_id, question_text, question_type, correct_answer, options) ==
    [id |-> id, quiz_id |-> quiz_id, question_text |-> question_text,
     question_type |-> question_type, correct_answer |-> correct_answer,
     options |-> options]

\* lines 367-376.  The connection never runs PRAGMA foreign_keys = ON (lines
\* 35-42), so REFERENCES quizzes (id) is not checked and the INSERT goes
\* through whether or not the quiz exists.  retval: the question id returned.
add_question(quiz_id, question_text, question_type, correct_answer, options, retval) ==
    /\ question_seq < MaxQuestions
    /\ questions' = questions \cup
          {NewQuestionRow(question_seq + 1, quiz_id, question_text,
                          question_type, correct_answer, options)}
    /\ question_seq' = question_seq + 1
    /\ retval = question_seq + 1
    /\ UNCHANGED <<quizzes, quiz_seq, quiz_attempts, attempt_seq,
                   question_responses, response_seq, started_clock, overwritten>>
    /\ UNCHANGED <<inviteVars, userVars, reportVars, connVars, schemaVars>>

\* A faulty lookup: the questions SELECT without its WHERE clause.
SelectQuestionsOfQuiz_All(quiz_id) == questions

\* SELECT * FROM questions WHERE quiz_id = ?
SelectQuestionsOfQuiz(quiz_id) == {q \in questions : q.quiz_id = quiz_id}

\* lines 388-406: NULL for None, else <<the quiz dict>>.  The method runs two
\* SELECTs; no operation updates or deletes a quiz, so what it returns is what
\* the two SELECTs return when run together at the instant of the second one
\* (or of the first one, when that finds no quiz).
get_quiz_with_questions(quiz_id) ==
    LET quiz == {q \in quizzes : q.id = quiz_id}
    IN  IF quiz = {}
          THEN NULL
          ELSE <<[quiz |-> CHOOSE q \in quiz : TRUE,
                  questions |-> OrderById(SelectQuestionsOfQuiz(quiz_id))]>>

\* A call of the method: it reads and returns, and writes nothing.
get_quiz_with_questions_call(quiz_id) ==
    /\ LET result == get_quiz_with_questions(quiz_id)
       IN  IF result = NULL THEN TRUE ELSE result[1].quiz.id = quiz_id
    /\ UNCHANGED vars

\* ----------------------------------------------------- quiz_attempts ----
\* INSERT INTO quiz_attempts (quiz_id, user_id): started_at takes its default
\* CURRENT_TIMESTAMP, the other columns are NULL.
NewAttemptRow(id, quiz_id, user_id) ==
    [id |-> id, quiz_id |-> quiz_id, user_id |-> user_id,
     started_at |-> CURRENT_TIMESTAMP(now), completed_at |-> NULL,
     score |-> NULL, max_score |-> NULL]

\* lines 420-429.  No foreign key is checked.  retval: the attempt id returned.
start_quiz_attempt(quiz_id, user_id, retval) ==
    /\ attempt_seq < MaxAttempts
    /\ quiz_attempts' = quiz_attempts \cup
          {NewAttemptRow(attempt_seq + 1, quiz_id, user_id)}
    /\ attempt_seq' = attempt_seq + 1
    /\ started_clock' = [started_clock EXCEPT ![attempt_seq + 1] = <<now>>]
    /\ retval = attempt_seq + 1
    /\ UNCHANGED <<quizzes, quiz_seq, questions, question_seq,
                   question_responses, response_seq, overwritten>>
    /\ UNCHANGED <<inviteVars, userVars, reportVars, connVars, schemaVars>>

\* A faulty UPDATE: completed_at left out of the SET list.
SetCompletion_ScoreOnly(attempt_id, score, max_score) ==
    {IF a.id = attempt_id
        THEN [a EXCEPT !.score = <<score>>, !.max_score = <<max_score>>]
        ELSE a : a \in quiz_attempts}

\* A faulty UPDATE: the first completion is kept (COALESCE on every column).
SetCompletion_FirstWins(attempt_id, score, max_score) ==
    {IF a.id = attempt_id /\ a.completed_at = NULL
        THEN [a EXCEPT !.completed_at = <<CURRENT_TIMESTAMP(now)>>,
                       !.score = <<score>>, !.max_score = <<max_score>>]
        ELSE a : a \in quiz_attempts}

\* UPDATE quiz_attempts SET completed_at = CURRENT_TIMESTAMP, score = ?,
\* max_score = ? WHERE id = ?
SetCompletion(attempt_id, score, max_score) ==
    {IF a.id = attempt_id
        THEN [a EXCEPT !.completed_at = <<CURRENT_TIMESTAMP(now)>>,
                       !.score = <<score>>, !.max_score = <<max_score>>]
        ELSE a : a \in quiz_attempts}

\* lines 468-477: the UPDATE, commit, "return True".  retval: the value
\* returned.
complete_quiz_attempt(attempt_id, score, max_score, retval) ==
    /\ quiz_attempts' = SetCompletion(attempt_id, score, max_score)
    /\ overwritten' =
          IF \E a \in quiz_attempts : a.id = attempt_id
            THEN LET a == CHOOSE a \in quiz_attempts : a.id = attempt_id
                 IN  <<[id |-> a.id, completed_at |-> a.completed_at,
                        score |-> a.score, max_score |-> a.max_score]>>
            ELSE overwritten
    /\ retval = TRUE
    /\ UNCHANGED <<quizzes, quiz_seq, questions, question_seq, attempt_seq,
                   question_responses, response_seq, started_clock>>
    /\ UNCHANGED <<inviteVars, userVars, reportVars, connVars, schemaVars>>

\* SELECT qa.id as attempt_id, q.title as quiz_title, qa.started_at,
\* qa.completed_at, qa.score, qa.max_score
\* FROM quiz_attempts qa JOIN quizzes q ON qa.quiz_id = q.id WHERE qa.user_id = ?
SelectHistory(user_id) ==
    {[attempt_id |-> a.id, quiz_title |-> q.title, started_at |-> a.started_at,
      completed_at |-> a.completed_at, score |-> a.score,
      max_score |-> a.max_score] :
        <<a, q>> \in {p \in quiz_attempts \X quizzes :
                        p[1].quiz_id = p[2].id /\ p[1].user_id = user_id}}

\* ORDER BY qa.started_at DESC: every listing of the rows that is
\* non-increasing in started_at (the order of equal keys is the engine's).
OrderByStartedDesc(rows) ==
    {s \in [1 .. Cardinality(rows) -> rows] :
        /\ \A i, j \in DOMAIN s : i # j => s[i] # s[j]
        /\ \A i, j \in DOMAIN s : i < j => s[i].started_at >= s[j].started_at}

\* lines 538-552: the lists the method may return in the current state.
get_user_quiz_history(user_id) == OrderByStartedDesc(SelectHistory(user_id))

\* A call of the method: it reads and returns, and writes nothing.
get_user_quiz_history_call(user_id) ==
    /\ get_user_quiz_history(user_id) # {}
    /\ UNCHANGED vars

\* ------------------------------------------------ question_responses ----
\* INSERT INTO question_responses (attempt_id, question_id, user_response,
\* is_correct)
NewResponseRow(id, attempt_id, question_id, user_response, is_correct) ==
    [id |-> id, attempt_id |-> attempt_id, question_id |-> question_id,
     user_response |-> user_response, is_correct |-> is_correct]

\* A faulty INSERT: INSERT OR REPLACE over a key (attempt_id, question_id).
InsertResponse_Replace(row) ==
    {r \in question_responses :
        ~(r.attempt_id = row.attempt_id /\ r.question_id = row.question_id)}
    \cup {row}

\* The INSERT: the table gains the row.
InsertResponse(row) == question_responses \cup {row}

\* lines 445-454.  No foreign key is checked.  retval: the response id returned.
record_question_response(attempt_id, question_id, user_response, is_correct, retval) ==
    /\ response_seq < MaxResponses
    /\ question_responses' =
          InsertResponse(NewResponseRow(response_seq + 1, attempt_id,
                                        question_id, user_response, is_correct))
    /\ response_seq' = response_seq + 1
    /\ retval = response_seq + 1
    /\ UNCHANGED <<quizzes, quiz_seq, questions, question_seq, quiz_attempts,
                   attempt_seq, started_clock, overwritten>>
    /\ UNCHANGED <<inviteVars, userVars, reportVars, connVars, schemaVars>>

\* -------------------------------------------------- progress_reports ----
\* INSERT INTO progress_reports (user_id, title, report_path): generated_at
\* takes its default, emailed_to and emailed_at are NULL.
NewReportRow(id, user_id, title, report_path) ==
    [id |-> id, user_id |-> user_id, title |-> title,
     generated_at |-> CURRENT_TIMESTAMP(now), report_path |-> report_path,
     emailed_to |-> NULL, emailed_at |-> NULL]

\* lines 492-501.  No foreign key is checked.  retval: the report id returned.
add_progress_report(user_id, title, report_path, retval) ==
    /\ report_seq < MaxReports
    /\ progress_reports' = progress_reports \cup
          {NewReportRow(report_seq + 1, user_id, title, report_path)}
    /\ report_seq' = report_seq + 1
    /\ retval = report_seq + 1
    /\ UNCHANGED <<inviteVars, userVars, learningVars, connVars, schemaVars>>

\* A faulty UPDATE: emailed_at left out of the SET list.
SetEmailStatus_AddressOnly(report_id, emailed_to) ==
    {IF r.id = report_id
        THEN [r EXCEPT !.emailed_to = <<emailed_to>>]
        ELSE r : r \in progress_reports}

\* UPDATE progress_reports SET emailed_to = ?, emailed_at = CURRENT_TIMESTAMP
\* WHERE id = ?
SetEmailStatus(report_id, emailed_to) ==
    {IF r.id = report_id
        THEN [r EXCEPT !.emailed_to = <<emailed_to>>,
                       !.emailed_at = <<CURRENT_TIMESTAMP(now)>>]
        ELSE r : r \in progress_reports}

\* lines 514-526.  fault as for delete_invite_link.  retval: the value returned.
update_report_email_status(report_id, emailed_to, fault, retval) ==
    /\ CASE fault = "none" ->
              /\ progress_reports' = SetEmailStatus(report_id, emailed_to)
              /\ retval = TRUE
         [] fault = "commit_busy" ->
              /\ progress_reports' = SetEmailStatus(report_id, emailed_to)
              /\ retval = FALSE
         [] OTHER ->
              /\ UNCHANGED progress_reports
              /\ retval = FALSE
    /\ UNCHANGED report_seq
    /\ UNCHANGED <<inviteVars, userVars, learningVars, connVars, schemaVars>>

\* ------------------------------------------- update_user_subscription ----
\* A faulty UPDATE: an omitted subscription_expires keeps the stored value.
SetSubscription_KeepExpiry(user_id, subscription_active, subscription_expires) ==
    {IF u.id = user_id
        THEN [u EXCEPT !.subscription_active = subscription_active,
                       !.subscription_expires =
                            IF subscription_expires = NULL
                              THEN @
                              ELSE <<adapt_datetime(subscription_expires[1])>>]
        ELSE u : u \in users}

\* UPDATE users SET subscription_active = ?, subscription_expires = ?
\* WHERE id = ?      (a datetime parameter goes through the adapter)
SetSubscription(user_id, subscription_active, subscription_expires) ==
    {IF u.id = user_id
        THEN [u EXCEPT !.subscription_active = subscription_active,
                       !.subscription_expires =
                            IF subscription_expires = NULL
                              THEN NULL
                              ELSE <<adapt_datetime(subscription_expires[1])>>]
        ELSE u : u \in users}

\* lines 599-610.  fault as for delete_invite_link.  retval: the value returned.
update_user_subscription(user_id, subscription_active, subscription_expires, fault, retval) ==
    /\ CASE fault = "none" ->
              /\ users' = SetSubscription(user_id, subscription_active,
                                          subscription_expires)
              /\ retval = TRUE
         [] fault = "commit_busy" ->
              /\ users' = SetSubscription(user_id, subscription_active,
                                          subscription_expires)
              /\ retval = FALSE
         [] OTHER ->
              /\ UNCHANGED users
              /\ retval = FALSE
    /\ UNCHANGED <<user_seq, upc, uarg, lastrowid, uret>>
    /\ UNCHANGED <<inviteVars, learningVars, reportVars, connVars, schemaVars>>

\* ------------------------------------------------ connection manager ----
\* Several threads call get_connection and close_connection of the one
\* Database object.  Nothing in the class serializes them, so a thread switch
\* may fall between the test of self.conn and the statement that follows it.

\* line 35: "if self.conn is None".  Otherwise line 42: "return self.conn".
get_connection_test(t) ==
    /\ cpc[t] = "idle"
    /\ IF conn = NULL
         THEN /\ handle_seq + Cardinality({u \in Threads : cpc[u] = "connect"})
                    < MaxHandles
              /\ cpc' = [cpc EXCEPT ![t] = "connect"]
              /\ UNCHANGED got
         ELSE /\ got' = [got EXCEPT ![t] = conn]
              /\ UNCHANGED cpc
    /\ UNCHANGED <<conn, handles, handle_seq>>
    /\ UNCHANGED <<inviteVars, userVars, learningVars, reportVars, schemaVars>>

\* lines 36-42: self.conn = sqlite3.connect(...), row_factory, return self.conn
get_connection_connect(t) ==
    /\ cpc[t] = "connect"
    /\ handle_seq' = handle_seq + 1
    /\ handles' = handles \cup {handle_seq + 1}
    /\ conn' = <<handle_seq + 1>>
    /\ got' = [got EXCEPT ![t] = <<handle_seq + 1>>]
    /\ cpc' = [cpc EXCEPT ![t] = "idle"]
    /\ UNCHANGED <<inviteVars, userVars, learningVars, reportVars, schemaVars>>

\* line 37 overwrote the only reference the object held to a handle: the
\* handle stays open until the interpreter reclaims the connection object,
\* which closes it.  When that happens is left to the interpreter.
dealloc(h) ==
    /\ h \in handles
    /\ conn # <<h>>
    /\ handles' = handles \ {h}
    /\ UNCHANGED <<conn, handle_seq, cpc, got>>
    /\ UNCHANGED <<inviteVars, userVars, learningVars, reportVars, schemaVars>>

\* line 46: "if self.conn"; with no connection the method returns at once.
close_connection_test(t) ==
    /\ cpc[t] = "idle"
    /\ cpc' = [cpc EXCEPT ![t] = IF conn = NULL THEN "idle" ELSE "close"]
    /\ got' = [got EXCEPT ![t] = NULL]
    /\ UNCHANGED <<conn, handles, handle_seq>>
    /\ UNCHANGED <<inviteVars, userVars, learningVars, reportVars, schemaVars>>

\* lines 47-48: self.conn.close(); self.conn = None.  When another thread has
\* set self.conn to None since line 46, line 47 raises AttributeError.
close_connection_close(t) ==
    /\ cpc[t] = "close"
    /\ cpc' = [cpc EXCEPT ![t] = "idle"]
    /\ IF conn = NULL
         THEN UNCHANGED <<conn, handles>>
         ELSE /\ handles' = handles \ {conn[1]}
              /\ conn' = NULL
    /\ UNCHANGED <<handle_seq, got>>
    /\ UNCHANGED <<inviteVars, userVars, learningVars, reportVars, schemaVars>>

\* ----------------------------------------------------- initialize_db ----
\* A faulty statement: the table is dropped and created anew.
CreateTableIfNotExists_DropFirst(name, rows) == {}

\* CREATE TABLE IF NOT EXISTS name (...): the rows of the table afterwards.
\* An existing table is left as it is, an absent one is created empty.
CreateTableIfNotExists(name, rows) == IF name \in schema THEN rows ELSE {}

\* lines 50-153: seven CREATE TABLE IF NOT EXISTS statements and a commit, on
\* the connection the constructor opened.
initialize_db ==
    /\ ensured < MaxEnsures
    /\ users' = CreateTableIfNotExists("users", users)
    /\ invite_links' = CreateTableIfNotExists("invite_links", invite_links)
    /\ quizzes' = CreateTableIfNotExists("quizzes", quizzes)
    /\ questions' = CreateTableIfNotExists("questions", questions)
    /\ quiz_attempts' = CreateTableIfNotExists("quiz_attempts", quiz_attempts)
    /\ question_responses' =
          CreateTableIfNotExists("question_responses", question_responses)
    /\ progress_reports' =
          CreateTableIfNotExists("progress_reports", progress_reports)
    /\ schema' = schema \cup Tables
    /\ ensured' = ensured + 1
    /\ UNCHANGED <<now, invite_seq, pc, arg, invite, ret>>
    /\ UNCHANGED <<user_seq, upc, uarg, lastrowid, uret>>
    /\ UNCHANGED <<quiz_seq, question_seq, attempt_seq, response_seq,
                   started_clock, overwritten, report_seq>>
    /\ UNCHANGED connVars

\* ------------------------------------------------------ specification ----
\* Database.__init__: the connection is opened and initialize_db has created
\* the empty tables.
InitInvites ==
    /\ now = 0
    /\ invite_links = {}
    /\ invite_seq = 0
    /\ pc = [c \in Calls |-> "idle"]
    /\ arg = [c \in Calls |-> NULL]
    /\ invite = [c \in Calls |-> NULL]
    /\ ret = [c \in Calls |-> NULL]

InitLearningTables ==
    /\ quizzes = {}
    /\ quiz_seq = 0
    /\ questions = {}
    /\ question_seq = 0
    /\ quiz_attempts = {}
    /\ attempt_seq = 0
    /\ question_responses = {}
    /\ response_seq = 0
    /\ started_clock = [a \in AttemptIds |-> NULL]
    /\ overwritten = NULL

InitReports ==
    /\ progress_reports = {}
    /\ report_seq = 0

\* lines 25-26: the constructor has opened the one handle and created the
\* seven tables.
InitConnection ==
    /\ conn = <<1>>
    /\ handles = {1}
    /\ handle_seq = 1
    /\ cpc = [t \in Threads |-> "idle"]
    /\ got = [t \in Threads |-> NULL]

InitSchema ==
    /\ schema = Tables
    /\ ensured = 0

Init ==
    /\ InitInvites
    /\ InitUsers
    /\ InitLearningTables
    /\ InitReports
    /\ InitConnection
    /\ InitSchema

Next ==
    \/ Tick
    \/ \E created_by \in UserIds, email \in InviteEmails,
          expires_in_days \in 0 .. MaxTtlDays, token \in Tokens,
          retval \in {NULL} \cup ((1 .. MaxInvites) \X Tokens) :
          create_invite_link(created_by, email, expires_in_days, token, retval)
    \/ \E c \in Calls, token \in Tokens, user_id \in UserIds :
          use_invite_link_select(c, token, user_id)
    \/ \E c \in Calls : use_invite_link_check(c)
    \/ \E c \in Calls : use_invite_link_update(c)
    \/ \E creator_id \in UserIds : get_active_invites_by_creator_call(creator_id)
    \/ \E invite_id \in 1 .. MaxInvites, fault \in FaultKinds, retval \in BOOLEAN :
          delete_invite_link(invite_id, fault, retval)

Spec == Init /\ [][Next]_vars

NextUsers ==
    \/ \E c \in AddCalls, username \in Usernames, password_hash \in PasswordHashes,
          email \in UserEmails, is_admin \in BOOLEAN :
          add_user_insert(c, username, password_hash, email, is_admin)
    \/ \E c \in AddCalls : add_user_commit(c)
    \/ \E user_id \in 1 .. NumAddCalls + 1 : is_user_admin_call(user_id)

SpecUsers == Init /\ [][NextUsers]_vars

\* The store after add_user("alice", "h1") has returned 1: user 1 exists,
\* user 2 does not.
InitOneUser ==
    /\ users = {NewUserRow(1, "alice", "h1", NULL, FALSE)}
    /\ user_seq = 1
    /\ upc = [c \in AddCalls |-> IF c = 1 THEN "done" ELSE "idle"]
    /\ uarg = [c \in AddCalls |->
                 IF c = 1 THEN <<[username |-> "alice", password_hash |-> "h1",
                                  email |-> NULL, is_admin |-> FALSE]>>
                          ELSE NULL]
    /\ lastrowid = [c \in AddCalls |-> IF c = 1 THEN <<1>> ELSE NULL]
    /\ uret = [c \in AddCalls |-> IF c = 1 THEN <<1>> ELSE NULL]

InitWithUser ==
    /\ InitInvites
    /\ InitOneUser
    /\ InitLearningTables
    /\ InitReports
    /\ InitConnection
    /\ InitSchema

NextQuiz ==
    \/ Tick
    \/ \E title \in Titles, source_material \in SourceMaterials,
          created_by \in QuizCreators, retval \in QuizIds :
          create_quiz(title, source_material, created_by, retval)
    \/ \E quiz_id \in QuizIds, question_text \in QuestionTexts,
          question_type \in QuestionTypes, correct_answer \in CorrectAnswers,
          options \in OptionTexts, retval \in QuestionIds :
          add_question(quiz_id, question_text, question_type, correct_answer,
                       options, retval)
    \/ \E quiz_id \in QuizIds : get_quiz_with_questions_call(quiz_id)

SpecQuiz == InitWithUser /\ [][NextQuiz]_vars

NextAttempts ==
    \/ Tick
    \/ \E quiz_id \in QuizIds, user_id \in UserIds, retval \in AttemptIds :
          start_quiz_attempt(quiz_id, user_id, retval)
    \/ \E attempt_id \in AttemptIds, score \in Scores, max_score \in MaxScores,
          retval \in BOOLEAN :
          complete_quiz_attempt(attempt_id, score, max_score, retval)

SpecAttempts == InitWithUser /\ [][NextAttempts]_vars

NextHistory ==
    \/ Tick
    \/ \E title \in Titles, source_material \in SourceMaterials,
          created_by \in QuizCreators, retval \in QuizIds :
          create_quiz(title, source_material, created_by, retval)
    \/ \E quiz_id \in QuizIds, user_id \in UserIds, retval \in AttemptIds :
          start_quiz_attempt(quiz_id, user_id, retval)
    \/ \E attempt_id \in AttemptIds, retval \in BOOLEAN :
          complete_quiz_attempt(attempt_id, 3, 5, retval)
    \/ \E user_id \in UserIds : get_user_quiz_history_call(user_id)

SpecHistory == InitWithUser /\ [][NextHistory]_vars

NextResponses ==
    \/ \E quiz_id \in QuizIds, question_text \in QuestionTexts,
          correct_answer \in CorrectAnswers, retval \in QuestionIds :
          add_question(quiz_id, question_text, "short_answer", correct_answer,
                       NULL, retval)
    \/ \E quiz_id \in QuizIds, user_id \in UserIds, retval \in AttemptIds :
          start_quiz_attempt(quiz_id, user_id, retval)
    \/ \E attempt_id \in AttemptIds, question_id \in QuestionIds,
          user_response \in UserResponses, is_correct \in BOOLEAN,
          retval \in ResponseIds :
          record_question_response(attempt_id, question_id, user_response,
                                   is_correct, retval)

SpecResponses == InitWithUser /\ [][NextResponses]_vars

NextReports ==
    \/ Tick
    \/ \E user_id \in UserIds, title \in ReportTitles, report_path \in ReportPaths,
          retval \in ReportIds :
          add_progress_report(user_id, title, report_path, retval)
    \/ \E report_id \in ReportIds, emailed_to \in Addresses, fault \in FaultKinds,
          retval \in BOOLEAN :
          update_report_email_status(report_id, emailed_to, fault, retval)

SpecReports == InitWithUser /\ [][NextReports]_vars

NextSubscription ==
    \/ \E c \in AddCalls, username \in Usernames, password_hash \in PasswordHashes,
          email \in UserEmails, is_admin \in BOOLEAN :
          add_user_insert(c, username, password_hash, email, is_admin)
    \/ \E c \in AddCalls : add_user_commit(c)
    \/ \E user_id \in UserIds, subscription_active \in BOOLEAN,
          subscription_expires \in SubscriptionExpiries, fault \in FaultKinds,
          retval \in BOOLEAN :
          update_user_subscription(user_id, subscription_active,
                                   subscription_expires, fault, retval)

SpecSubscription == InitWithUser /\ [][NextSubscription]_vars

NextConnection ==
    \/ \E t \in Threads : get_connection_test(t)
    \/ \E t \in Threads : get_connection_connect(t)
    \/ \E h \in 1 .. MaxHandles : dealloc(h)
    \/ \E t \in Threads : close_connection_test(t)
    \/ \E t \in Threads : close_connection_close(t)

SpecConnection == InitWithUser /\ [][NextConnection]_vars

\* Every operation that inserts a row and delete_invite_link, each insert
\* with one choice of the values that no identifier depends on.
NextStore ==
    \/ \E c \in AddCalls, username \in Usernames :
          add_user_insert(c, username, "h1", NULL, FALSE)
    \/ \E c \in AddCalls : add_user_commit(c)
    \/ \E token \in Tokens, retval \in {NULL} \cup ((1 .. MaxInvites) \X Tokens) :
          create_invite_link(1, NULL, 1, token, retval)
    \/ \E invite_id \in 1 .. MaxInvites, fault \in FaultKinds, retval \in BOOLEAN :
          delete_invite_link(invite_id, fault, retval)
    \/ \E retval \in QuizIds : create_quiz("Algebra", "notes", NULL, retval)
    \/ \E retval \in QuestionIds :
          add_question(1, "2+2?", "short_answer", "4", NULL, retval)
    \/ \E retval \in AttemptIds : start_quiz_attempt(1, 1, retval)
    \/ \E retval \in ResponseIds : record_question_response(1, 1, "4", TRUE, retval)
    \/ \E retval \in ReportIds : add_progress_report(1, "Monthly", "/r.pdf", retval)

SpecStore == Init /\ [][NextStore]_vars

\* initialize_db called again at any point between the inserts, on a store
\* that holds user 1.
NextSchema ==
    \/ \E token \in Tokens, retval \in {NULL} \cup ((1 .. MaxInvites) \X Tokens) :
          create_invite_link(1, NULL, 1, token, retval)
    \/ \E retval \in QuizIds : create_quiz("Algebra", "notes", NULL, retval)
    \/ \E retval \in QuestionIds :
          add_question(1, "2+2?", "short_answer", "4", NULL, retval)
    \/ \E retval \in AttemptIds : start_quiz_attempt(1, 1, retval)
    \/ \E retval \in ResponseIds : record_question_response(1, 1, "4", TRUE, retval)
    \/ \E retval \in ReportIds : add_progress_report(1, "Monthly", "/r.pdf", retval)
    \/ initialize_db

SpecSchema == InitWithUser /\ [][NextSchema]_vars

\* The operations that can hit a storage fault, with the inserts that provide
\* their rows.
NextFaults ==
    \/ \E user_id \in UserIds, subscription_active \in BOOLEAN,
          subscription_expires \in SubscriptionExpiries, fault \in FaultKinds,
          retval \in BOOLEAN :
          update_user_subscription(user_id, subscription_active,
                                   subscription_expires, fault, retval)
    \/ \E token \in Tokens, retval \in {NULL} \cup ((1 .. MaxInvites) \X Tokens) :
          create_invite_link(1, NULL, 1, token, retval)
    \/ \E invite_id \in 1 .. MaxInvites, fault \in FaultKinds, retval \in BOOLEAN :
          delete_invite_link(invite_id, fault, retval)
    \/ \E retval \in ReportIds : add_progress_report(1, "Monthly", "/r.pdf", retval)
    \/ \E report_id \in ReportIds, emailed_to \in Addresses, fault \in FaultKinds,
          retval \in BOOLEAN :
          update_report_email_status(report_id, emailed_to, fault, retval)

SpecFaults == InitWithUser /\ [][NextFaults]_vars

\* The operations that update a stored row, without storage faults, with the
\* inserts that provide their rows: a second user, invites, attempts, reports.
NextMutations ==
    \/ add_user_insert(2, "bob", "h2", <<"b@x">>, TRUE)
    \/ add_user_commit(2)
    \/ \E user_id \in UserIds, subscription_active \in BOOLEAN,
          subscription_expires \in SubscriptionExpiries, retval \in BOOLEAN :
          update_user_subscription(user_id, subscription_active,
                                   subscription_expires, "none", retval)
    \/ \E token \in Tokens, retval \in {NULL} \cup ((1 .. MaxInvites) \X Tokens) :
          create_invite_link(1, NULL, 1, token, retval)
    \/ \E token \in Tokens : use_invite_link_select(1, token, 2)
    \/ use_invite_link_check(1)
    \/ use_invite_link_update(1)
    \/ \E retval \in AttemptIds : start_quiz_attempt(1, 1, retval)
    \/ \E attempt_id \in AttemptIds, retval \in BOOLEAN :
          complete_quiz_attempt(attempt_id, 3, 5, retval)
    \/ \E retval \in ReportIds : add_progress_report(1, "Monthly", "/r.pdf", retval)
    \/ \E report_id \in ReportIds, retval \in BOOLEAN :
          update_report_email_status(report_id, "p@x", "none", retval)

SpecMutations == InitWithUser /\ [][NextMutations]_vars

\* ============================================================ claims ====
UsedRows(T) == {r \in T : r.used}

\* C1: for one unused, unexpired invite and two or more use_invite_link calls
\* with distinct user ids whose lookups all found it unused (concurrent calls),
\* once they have all returned exactly one returned True and the row's used_by
\* is that call's user id.
C1_ExactlyOneRedeemer ==
    \A r \in invite_links :
        LET S == {c \in Calls : pc[c] = "done" /\ invite[c] # NULL
                                /\ invite[c][1].id = r.id}
            won == {c \in S : ret[c] = <<TRUE>>}
        IN  ( /\ Cardinality(S) >= 2
              /\ \A c, d \in S : c # d => arg[c][1].user_id # arg[d][1].user_id
              /\ fromisoformat(r.expires_at) > now )
            => /\ Cardinality(won) = 1
               /\ \A c \in won : r.used_by = <<arg[c][1].user_id>>

\* C2: a row with used = true stays used and keeps its used_by and used_at in
\* every later step, and used_by / used_at are set exactly when used is.
C2_UsedAtMostOnce ==
    [][ /\ \A r \in UsedRows(invite_links) : \A q \in invite_links' :
              q.id = r.id => q.used /\ q.used_by = r.used_by /\ q.used_at = r.used_at
        /\ \A q \in invite_links' :
              (q.used <=> q.used_by # NULL) /\ (q.used <=> q.used_at # NULL)
      ]_vars

\* C3: a use_invite_link call returns True only in a step in which its own
\* write took the fetched row from used = false to used = true.
C3_TrueOnlyIfOwnWriteChanged ==
    [][ \A c \in Calls :
          (pc[c] # "done" /\ pc'[c] = "done" /\ ret'[c] = <<TRUE>>)
          => \E r \in invite_links :
                /\ r.id = invite[c][1].id
                /\ ~r.used
                /\ \E q \in invite_links' : q.id = r.id /\ q.used
      ]_vars

\* C4: when a use_invite_link call compares the fetched unused invite against
\* the clock and expires_at is earlier than the current time, the call returns
\* False in that step and the table is left as it was.
C4_ExpiredRejected ==
    [][ \A c \in Calls :
          ( /\ pc[c] = "fetched" /\ pc'[c] # "fetched"
            /\ invite[c][1].expires_at[1] * TicksPerDay
                   + invite[c][1].expires_at[3] < now )
          => /\ pc'[c] = "done"
             /\ ret'[c] = <<FALSE>>
             /\ invite_links' = invite_links
      ]_vars

\* A call has returned False for a fetched invite that is still stored, unused
\* and past its expires_at.
C4_Witness ==
    \E c \in Calls, r \in invite_links :
        /\ pc[c] = "done" /\ ret[c] = <<FALSE>>
        /\ invite[c] # NULL /\ invite[c][1].id = r.id
        /\ ~r.used /\ r.used_by = NULL /\ r.used_at = NULL
        /\ fromisoformat(r.expires_at) < now

\* C5: an invite created with ttl = 0 (expires_at equal to the instant of its
\* creation) is never marked used.
C5_TtlZeroNeverUsed ==
    \A r \in invite_links : fromisoformat(r.expires_at) = r.created_at => ~r.used

\* C6: a use_invite_link call whose token matches no unused row returns False
\* in its lookup step and changes no row.
C6_NoUnusedMatchRejected ==
    [][ \A c \in Calls :
          ( /\ pc[c] = "idle" /\ pc'[c] # "idle"
            /\ ~\E r \in invite_links : r.token = arg'[c][1].token /\ ~r.used )
          => /\ pc'[c] = "done"
             /\ ret'[c] = <<FALSE>>
             /\ invite_links' = invite_links
      ]_vars

\* A second redemption of a token returned False after the first returned
\* True, and the row still names the first redeemer.
C6_Witness ==
    \E c, d \in Calls, r \in invite_links :
        /\ pc[c] = "done" /\ ret[c] = <<TRUE>> /\ invite[c][1].id = r.id
        /\ pc[d] = "done" /\ ret[d] = <<FALSE>> /\ invite[d] = NULL
        /\ arg[d][1].token = r.token
        /\ arg[d][1].user_id # arg[c][1].user_id
        /\ r.used /\ r.used_by = <<arg[c][1].user_id>>

\* C7: in every state get_active_invites_by_creator(creator_id) returns
\* exactly the stored rows with created_by = creator_id, used = false and
\* expires_at later than the current time, newest created first.
C7_ActiveListing ==
    \A creator_id \in UserIds :
        \A listed \in get_active_invites_by_creator(creator_id) :
            /\ {listed[i] : i \in DOMAIN listed} =
                  {r \in invite_links :
                      /\ r.created_by = creator_id
                      /\ ~r.used
                      /\ fromisoformat(r.expires_at) > now}
            /\ \A i, j \in DOMAIN listed :
                  i < j => listed[i].created_at >= listed[j].created_at

\* C8: delete_invite_link(invite_id) returns True exactly when a row with that
\* id existed and the call removed it, and when it returns False the table is
\* as it was.
C8_DeleteReturnsRemoved ==
    [][ \A invite_id \in 1 .. MaxInvites, fault \in FaultKinds, retval \in BOOLEAN :
          delete_invite_link(invite_id, fault, retval)
          => LET existed == \E r \in invite_links : r.id = invite_id
                 removed == existed /\ ~\E r \in invite_links' : r.id = invite_id
             IN  /\ retval <=> removed
                 /\ ~retval => invite_links' = invite_links
      ]_vars

\* C9: add_user with a username already stored, or a non-null email already
\* stored, returns -1 in its INSERT step, and the users table is as it was,
\* with one row of that username or email.
C9_DuplicateUserRejected ==
    [][ \A c \in AddCalls :
          ( /\ upc[c] = "idle" /\ upc'[c] # "idle"
            /\ \E u \in users :
                  \/ u.username = uarg'[c][1].username
                  \/ uarg'[c][1].email # NULL /\ u.email = uarg'[c][1].email )
          => /\ upc'[c] = "done"
             /\ uret'[c] = <<-1>>
             /\ users' = users
             /\ user_seq' = user_seq
             /\ Cardinality({u \in users' : u.username = uarg'[c][1].username}) <= 1
             /\ uarg'[c][1].email # NULL =>
                  Cardinality({u \in users' : u.email = uarg'[c][1].email}) <= 1
      ]_vars

\* An add_user call returned -1 for a stored username, or for a stored email
\* under another username, and the stored row is not the rejected call's.
C9_Witness ==
    /\ \E c \in AddCalls, u \in users :
          /\ upc[c] = "done" /\ uret[c] = <<-1>>
          /\ u.username = uarg[c][1].username
          /\ u.password_hash # uarg[c][1].password_hash
    /\ \E c \in AddCalls, u \in users :
          /\ upc[c] = "done" /\ uret[c] = <<-1>>
          /\ u.username # uarg[c][1].username
          /\ u.email # NULL /\ u.email = uarg[c][1].email

\* The add_user calls with this username that inserted a row.
Inserted(username) ==
    {c \in AddCalls : /\ upc[c] \in {"inserted", "done"}
                      /\ uarg[c][1].username = username
                      /\ uret[c] # <<-1>>}

\* C10: no two user rows share a username or a non-null email (NULL emails may
\* coexist), and of the add_user calls with one username exactly as many
\* inserted a row as rows of that username exist: at most one.
C10_UsersUnique ==
    /\ \A u, v \in users :
          u # v => /\ u.id # v.id
                   /\ u.username # v.username
                   /\ u.email = NULL \/ u.email # v.email
    /\ \A username \in Usernames :
          /\ Cardinality(Inserted(username)) <= 1
          /\ Cardinality({u \in users : u.username = username})
                = Cardinality(Inserted(username))

\* Two users without email coexist, and an add_user call with the username of
\* a call that had inserted but not yet returned was rejected.
C10_Witness ==
    /\ Cardinality({u \in users : u.email = NULL}) >= 2
    /\ \E c, d \in AddCalls :
          /\ c # d /\ uarg[c] # NULL /\ uarg[d] # NULL
          /\ uarg[c][1].username = uarg[d][1].username
          /\ upc[c] = "inserted" /\ upc[d] = "done" /\ uret[d] = <<-1>>

\* C11: add_question with a quiz_id for which no quiz row exists fails: it
\* creates no question row (and consumes no question id).
C11_QuestionNeedsQuiz ==
    [][ \A quiz_id \in QuizIds, question_text \in QuestionTexts,
           question_type \in QuestionTypes, correct_answer \in CorrectAnswers,
           options \in OptionTexts, retval \in QuestionIds :
          ( /\ add_question(quiz_id, question_text, question_type,
                            correct_answer, options, retval)
            /\ ~\E q \in quizzes : q.id = quiz_id )
          => /\ questions' = questions
             /\ question_seq' = question_seq
      ]_vars

\* C12: in every reachable state every quiz attempt references an existing
\* quiz and an existing user, every question response an existing attempt and
\* an existing question, every progress report an existing user, and every
\* invite's created_by and non-null used_by existing users.
C12_ReferentialIntegrity ==
    /\ \A a \in quiz_attempts :
          /\ \E q \in quizzes : q.id = a.quiz_id
          /\ \E u \in users : u.id = a.user_id
    /\ \A r \in question_responses :
          /\ \E a \in quiz_attempts : a.id = r.attempt_id
          /\ \E q \in questions : q.id = r.question_id
    /\ \A p \in progress_reports : \E u \in users : u.id = p.user_id
    /\ \A i \in invite_links :
          /\ \E u \in users : u.id = i.created_by
          /\ i.used_by # NULL => \E u \in users : u.id = i.used_by[1]

\* C13: a complete_quiz_attempt(id, s2, m2) on an attempt that an earlier
\* call has completed leaves the attempt with score = s2, max_score = m2 and
\* completed_at the time of this call, whatever the earlier call had set; it
\* returns True and changes no other attempt.
C13_LastWriteWins ==
    [][ \A attempt_id \in AttemptIds, score \in Scores, max_score \in MaxScores,
           retval \in BOOLEAN :
          ( /\ complete_quiz_attempt(attempt_id, score, max_score, retval)
            /\ \E a \in quiz_attempts : a.id = attempt_id /\ a.completed_at # NULL )
          => /\ retval
             /\ \E b \in quiz_attempts' :
                   /\ b.id = attempt_id
                   /\ b.score = <<score>>
                   /\ b.max_score = <<max_score>>
                   /\ b.completed_at = <<now \div TicksPerSecond>>
             /\ \A a \in quiz_attempts : a.id # attempt_id => a \in quiz_attempts'
             /\ Cardinality(quiz_attempts') = Cardinality(quiz_attempts)
      ]_vars

\* An attempt was completed a second time, in a later second and with another
\* score and another max_score than the first time, and shows the second
\* call's values.
C13_Witness ==
    /\ overwritten # NULL
    /\ overwritten[1].completed_at # NULL
    /\ \E a \in quiz_attempts :
          /\ a.id = overwritten[1].id
          /\ a.score # overwritten[1].score
          /\ a.max_score # overwritten[1].max_score
          /\ a.completed_at[1] > overwritten[1].completed_at[1]

\* C14: after every step an attempt's completed_at, score and max_score are all
\* unset or all set; start_quiz_attempt creates the attempt with the three unset
\* and started_at the current time; and the three stay unset until a
\* complete_quiz_attempt call on that attempt.
C14_CompletionSetTogether ==
    [][ /\ \A b \in quiz_attempts' :
              \/ b.completed_at = NULL /\ b.score = NULL /\ b.max_score = NULL
              \/ b.completed_at # NULL /\ b.score # NULL /\ b.max_score # NULL
        /\ \A b \in quiz_attempts' :
              (~\E a \in quiz_attempts : a.id = b.id)
              => /\ b.completed_at = NULL /\ b.score = NULL /\ b.max_score = NULL
                 /\ b.started_at = now \div TicksPerSecond
        /\ \A a \in quiz_attempts, b \in quiz_attempts' :
              (a.id = b.id /\ a.completed_at = NULL /\ b.completed_at # NULL)
              => \E score \in Scores, max_score \in MaxScores :
                    complete_quiz_attempt(a.id, score, max_score, TRUE)
      ]_vars

\* One attempt is completed, in a later second than it was started, while
\* another attempt, started no later, is still open.
C14_Witness ==
    \E a, b \in quiz_attempts :
        /\ a.completed_at # NULL /\ a.score # NULL /\ a.max_score # NULL
        /\ a.completed_at[1] > a.started_at
        /\ b.id < a.id
        /\ b.completed_at = NULL /\ b.score = NULL /\ b.max_score = NULL

\* C15: get_user_quiz_history(user_id) returns one entry for each attempt of
\* that user whose quiz exists and no other entry, an attempt started later
\* never after one started earlier.
C15_HistoryNewestFirst ==
    \A user_id \in UserIds :
        \A history \in get_user_quiz_history(user_id) :
            /\ {history[i].attempt_id : i \in DOMAIN history} =
                  {a.id : a \in {x \in quiz_attempts :
                                    /\ x.user_id = user_id
                                    /\ \E q \in quizzes : q.id = x.quiz_id}}
            /\ \A i, j \in DOMAIN history :
                  i # j => history[i].attempt_id # history[j].attempt_id
            /\ \A i, j \in DOMAIN history :
                  i < j => started_clock[history[i].attempt_id][1]
                              >= started_clock[history[j].attempt_id][1]

\* C16: an add_question on an existing quiz is returned by
\* get_quiz_with_questions of that quiz with the options it was given, items
\* and order unchanged, and a question once returned is returned with the same
\* options after every later step.
C16_OptionsRoundTrip ==
    [][ /\ questions' # questions =>
             \A quiz_id \in QuizIds, question_text \in QuestionTexts,
                question_type \in QuestionTypes, correct_answer \in CorrectAnswers,
                options \in OptionTexts, retval \in QuestionIds :
               ( /\ \E q \in quizzes : q.id = quiz_id
                 /\ add_question(quiz_id, question_text, question_type,
                                 correct_answer, options, retval) )
               => LET after == get_quiz_with_questions(quiz_id)'
                  IN  /\ after # NULL
                      /\ \E i \in DOMAIN after[1].questions :
                            /\ after[1].questions[i].id = retval
                            /\ after[1].questions[i].options = options
        /\ \A quiz_id \in QuizIds :
             LET before == get_quiz_with_questions(quiz_id)
                 after == get_quiz_with_questions(quiz_id)'
             IN  before # NULL
                 => /\ after # NULL
                    /\ \A i \in DOMAIN before[1].questions :
                          \E j \in DOMAIN after[1].questions :
                             /\ after[1].questions[j].id = before[1].questions[i].id
                             /\ after[1].questions[j].options
                                   = before[1].questions[i].options
      ]_vars

\* A quiz is returned with a question without options and, added after it,
\* two questions whose options hold the same items in opposite orders.
C16_Witness ==
    \E quiz_id \in QuizIds :
        /\ get_quiz_with_questions(quiz_id) # NULL
        /\ LET qs == get_quiz_with_questions(quiz_id)[1].questions
           IN  /\ Len(qs) = 3
               /\ qs[1].options = NULL
               /\ qs[2].options = << <<"3", "4", "5">> >>
               /\ qs[3].options = << <<"5", "4", "3">> >>

\* C17: in every state get_quiz_with_questions(quiz_id) is None when no quiz
\* has that id, and otherwise the quiz row with exactly the questions of that
\* quiz_id, each once; and in every step the questions returned before the
\* step come first and in the same order in what is returned after it, so that
\* the list is in the order of adding.
C17_QuizWithItsQuestions ==
    /\ [](\A quiz_id \in QuizIds :
            LET result == get_quiz_with_questions(quiz_id)
            IN  IF ~\E q \in quizzes : q.id = quiz_id
                  THEN result = NULL
                  ELSE /\ result # NULL
                       /\ result[1].quiz \in quizzes
                       /\ result[1].quiz.id = quiz_id
                       /\ {result[1].questions[i] : i \in DOMAIN result[1].questions}
                             = {q \in questions : q.quiz_id = quiz_id}
                       /\ \A i, j \in DOMAIN result[1].questions :
                             i # j => result[1].questions[i] # result[1].questions[j])
    /\ [][ questions' # questions =>
             \A quiz_id \in QuizIds :
                LET before == get_quiz_with_questions(quiz_id)
                    after == get_quiz_with_questions(quiz_id)'
                IN  before # NULL
                    => /\ after # NULL
                       /\ Len(before[1].questions) <= Len(after[1].questions)
                       /\ \A i \in DOMAIN before[1].questions :
                             after[1].questions[i] = before[1].questions[i]
         ]_vars

\* Quiz 1 is returned with the first and the third question added, in that
\* order, and without the second, which belongs to quiz 2.
C17_Witness ==
    /\ get_quiz_with_questions(1) # NULL
    /\ get_quiz_with_questions(2) # NULL
    /\ Len(get_quiz_with_questions(1)[1].questions) = 2
    /\ get_quiz_with_questions(1)[1].questions[1].id = 1
    /\ get_quiz_with_questions(1)[1].questions[2].id = 3
    /\ Len(get_quiz_with_questions(2)[1].questions) = 1
    /\ get_quiz_with_questions(2)[1].questions[1].id = 2

\* C18: every record_question_response call, also one repeating an (attempt,
\* question) pair already recorded, adds exactly one row, under an id no
\* stored row has, holding the call's arguments; and no step changes or
\* removes a row recorded before.
C18_ResponsesAppendOnly ==
    [][ /\ question_responses \subseteq question_responses'
        /\ \A attempt_id \in AttemptIds, question_id \in QuestionIds,
              user_response \in UserResponses, is_correct \in BOOLEAN,
              retval \in ResponseIds :
             record_question_response(attempt_id, question_id, user_response,
                                      is_correct, retval)
             => /\ ~\E r \in question_responses : r.id = retval
                /\ question_responses' = question_responses \cup
                      {[id |-> retval, attempt_id |-> attempt_id,
                        question_id |-> question_id,
                        user_response |-> user_response,
                        is_correct |-> is_correct]}
                /\ Cardinality(question_responses')
                      = Cardinality(question_responses) + 1
      ]_vars

\* Two responses are stored for the same attempt and question, one correct and
\* one not.
C18_Witness ==
    \E r, q \in question_responses :
        /\ r.id < q.id
        /\ r.attempt_id = q.attempt_id /\ r.question_id = q.question_id
        /\ r.is_correct /\ ~q.is_correct

\* C19: an update_user_subscription(user_id, active, expires) that meets no
\* storage fault returns True; when the user exists, that row then has
\* subscription_active = active and subscription_expires = expires (NULL when
\* omitted) and is otherwise as before, and all other rows are unchanged; when
\* no user has that id, the table is as it was.  With or without fault the two
\* columns are written together or not at all.
C19_SubscriptionOverwritten ==
    [][ \A user_id \in UserIds, subscription_active \in BOOLEAN,
           subscription_expires \in SubscriptionExpiries, fault \in FaultKinds,
           retval \in BOOLEAN :
          update_user_subscription(user_id, subscription_active,
                                   subscription_expires, fault, retval)
          => LET expires == IF subscription_expires = NULL THEN NULL
                            ELSE << <<subscription_expires[1] \div TicksPerDay, SP,
                                      subscription_expires[1] % TicksPerDay>> >>
                 written == {IF u.id = user_id
                               THEN [u EXCEPT !.subscription_active = subscription_active,
                                              !.subscription_expires = expires]
                               ELSE u : u \in users}
             IN  /\ fault = "none" => retval /\ users' = written
                 /\ (~\E u \in users : u.id = user_id) => users' = users
                 /\ users' \in {users, written}
      ]_vars

\* User 1 has been given an active subscription with an expiry, while user 2
\* is stored with an inactive subscription without expiry.
C19_Witness ==
    \E u, v \in users :
        /\ u.id = 1 /\ u.subscription_active /\ u.subscription_expires # NULL
        /\ v.id = 2 /\ ~v.subscription_active /\ v.subscription_expires = NULL

\* C20: after every step a report's emailed_to and emailed_at are both unset
\* or both set; add_progress_report creates the report with both unset; and an
\* update_report_email_status that meets no storage fault leaves the report
\* with the call's address and the call's time, also when both were set
\* before.
C20_EmailStatusSetTogether ==
    [][ /\ \A r \in progress_reports' : (r.emailed_to = NULL) <=> (r.emailed_at = NULL)
        /\ \A r \in progress_reports' :
              (~\E q \in progress_reports : q.id = r.id)
              => r.emailed_to = NULL /\ r.emailed_at = NULL
        /\ \A report_id \in ReportIds, emailed_to \in Addresses, retval \in BOOLEAN :
              update_report_email_status(report_id, emailed_to, "none", retval)
              => /\ retval
                 /\ \A r \in progress_reports' :
                       r.id = report_id
                       => /\ r.emailed_to = <<emailed_to>>
                          /\ r.emailed_at = <<now \div TicksPerSecond>>
                 /\ \A q \in progress_reports :
                       q.id # report_id => q \in progress_reports'
                 /\ Cardinality(progress_reports') = Cardinality(progress_reports)
      ]_vars

\* One report has been emailed, in a later second than it was generated, and
\* another report has not.
C20_Witness ==
    \E r, q \in progress_reports :
        /\ r.emailed_to # NULL /\ r.emailed_at # NULL
        /\ r.emailed_at[1] > r.generated_at
        /\ q.emailed_to = NULL /\ q.emailed_at = NULL

\* C22: at any time at most one storage handle is open; get_connection opens
\* a handle only when none is open and otherwise returns the existing one,
\* also when several threads call it concurrently after a close_connection;
\* close_connection closes the handle if one is open, changes nothing when
\* none is, and leaves self.conn unset so that a later get_connection opens
\* a fresh handle.
C22_AtMostOneHandle ==
    /\ [](Cardinality(handles) <= 1)
    /\ [][\A t \in Threads :
            /\ get_connection_connect(t) =>
                  (handles = {} /\ handles' = {handle_seq'} /\ got'[t] = conn')
            /\ (get_connection_test(t) /\ conn # NULL) =>
                  (got'[t] = conn /\ handles' = handles)
            /\ (close_connection_test(t) /\ conn = NULL) =>
                  UNCHANGED <<conn, handles>>
            /\ close_connection_close(t) => (handles' = {} /\ conn' = NULL)]_vars

\* The ids of the rows a step adds to a table.
NewIds(T, Tp) == {r.id : r \in Tp} \ {r.id : r \in T}

\* A step gives every row it adds an id above seq, the largest id the table
\* has assigned so far, and leaves seq at the largest id assigned.
AssignsFreshIds(T, Tp, seq, seqp) ==
    /\ seqp >= seq
    /\ \A id \in NewIds(T, Tp) : id > seq /\ id <= seqp

\* C21: in each table every successful create returns an id strictly greater
\* than every id the table has assigned before, also after delete_invite_link
\* removed the invite with the highest id and after an add_user that failed on
\* a duplicate; no id is assigned twice.
C21_IdsNeverReused ==
    /\ [](/\ \A r \in users : r.id <= user_seq
          /\ \A r \in invite_links : r.id <= invite_seq
          /\ \A r \in quizzes : r.id <= quiz_seq
          /\ \A r \in questions : r.id <= question_seq
          /\ \A r \in quiz_attempts : r.id <= attempt_seq
          /\ \A r \in question_responses : r.id <= response_seq
          /\ \A r \in progress_reports : r.id <= report_seq)
    /\ [][/\ AssignsFreshIds(users, users', user_seq, user_seq')
          /\ AssignsFreshIds(invite_links, invite_links', invite_seq, invite_seq')
          /\ AssignsFreshIds(quizzes, quizzes', quiz_seq, quiz_seq')
          /\ AssignsFreshIds(questions, questions', question_seq, question_seq')
          /\ AssignsFreshIds(quiz_attempts, quiz_attempts', attempt_seq, attempt_seq')
          /\ AssignsFreshIds(question_responses, question_responses',
                             response_seq, response_seq')
          /\ AssignsFreshIds(progress_reports, progress_reports',
                             report_seq, report_seq')
          /\ \A token \in Tokens, retval \in (1 .. MaxInvites) \X Tokens :
                create_invite_link(1, NULL, 1, token, retval) =>
                    (retval[1] > invite_seq /\ retval[1] \in NewIds(invite_links, invite_links'))
          /\ \A c \in AddCalls :
                (add_user_commit(c) /\ uret'[c] # <<-1>>) =>
                    (\E u \in users : u.id = uret'[c][1]
                                      /\ u.username = uarg[c][1].username)]_vars

\* C21 witness: the second add_user failed on the duplicate name and the
\* third got id 2; invite 1 was deleted and the only stored invite has id 2.
C21_Witness ==
    /\ uret = <<<<1>>, <<-1>>, <<2>>>>
    /\ {r.id : r \in invite_links} = {2}
    /\ invite_seq = 2

\* C23: initialize_db, called any number of times at any point, leaves every
\* row of the seven tables as it was, and creates no table that exists.
C23_EnsureSchemaIdempotent ==
    [][initialize_db =>
          /\ UNCHANGED <<users, invite_links, quizzes, questions, quiz_attempts,
                         question_responses, progress_reports>>
          /\ UNCHANGED <<user_seq, invite_seq, quiz_seq, question_seq,
                         attempt_seq, response_seq, report_seq>>
          /\ schema' = schema \cup Tables]_vars

\* C23 witness: initialize_db has run twice more and every table holds a row.
C23_Witness ==
    /\ ensured = MaxEnsures
    /\ users # {} /\ invite_links # {} /\ quizzes # {} /\ questions # {}
    /\ quiz_attempts # {} /\ question_responses # {} /\ progress_reports # {}

\* C24: is_user_admin(user_id) is true if and only if a user with that id is
\* stored and its is_admin flag is set; for an id no user has it is false (and
\* has a value: nothing is raised); a user added with is_admin left at its
\* default (False) is not an admin.
C24_IsAdminIffFlagSet ==
    /\ \A user_id \in 1 .. NumAddCalls + 1 :
          /\ is_user_admin(user_id) \in BOOLEAN
          /\ is_user_admin(user_id) <=>
                (\E u \in users : u.id = user_id /\ u.is_admin = 1)
    /\ \A c \in AddCalls :
          (lastrowid[c] # NULL /\ ~uarg[c][1].is_admin) =>
                ~is_user_admin(lastrowid[c][1])

\* C24 witness: user 1 was added as an admin, user 2 with the default flag, no
\* user has id 3: is_user_admin is true of 1 only.
C24_Witness ==
    /\ \E u \in users : u.id = 1 /\ u.is_admin = 1
    /\ \E c \in AddCalls : uret[c] = <<2>> /\ ~uarg[c][1].is_admin
    /\ is_user_admin(1) /\ ~is_user_admin(2) /\ ~is_user_admin(3)

\* C25: a create_invite_link(created_by, email, expires_in_days) that returns
\* has added exactly one row, with the id and token it returns, created_by as
\* given, used = 0, used_by and used_at NULL and expires_at = the time of the
\* call + expires_in_days; no other stored invite has that token or that id.
C25_CreateInviteAddsOneRow ==
    [][invite_seq' # invite_seq =>
        \A created_by \in UserIds, email \in InviteEmails,
           expires_in_days \in 0 .. MaxTtlDays, token \in Tokens,
           retval \in (1 .. MaxInvites) \X Tokens :
           create_invite_link(created_by, email, expires_in_days, token, retval) =>
              \E r \in invite_links' :
                 /\ r \notin invite_links
                 /\ invite_links' = invite_links \cup {r}
                 /\ r.id = retval[1] /\ r.token = retval[2]
                 /\ r.created_by = created_by /\ r.email = email
                 /\ ~r.used /\ r.used_by = NULL /\ r.used_at = NULL
                 /\ fromisoformat(r.expires_at) = now + expires_in_days * TicksPerDay
                 /\ \A q \in invite_links : q.token # r.token /\ q.id # r.id]_vars

\* C25 witness: two invites are stored, the second created one clock reading
\* after the first with expires_in_days = 1, under different tokens.
C25_Witness ==
    \E r, q \in invite_links :
        /\ r.id = 1 /\ q.id = 2 /\ r.token # q.token
        /\ r.created_at = 0 /\ q.created_at = 1
        /\ fromisoformat(q.expires_at) = 1 + TicksPerDay
        /\ ~q.used /\ q.used_by = NULL /\ q.used_at = NULL

\* C26: no invite is marked used after its expiry instant: in every state
\* every invite with used = 1 was written as used at a time not later than
\* its expires_at, also when the clock passes expires_at between the expiry
\* test of use_invite_link and its UPDATE.
C26_NeverUsedAfterExpiry ==
    \A r \in invite_links :
        r.used => r.used_at[1] <= fromisoformat(r.expires_at)

\* C27: every stored question has a non-empty options value if and only if
\* its question_type is multiple_choice: add_question stores no
\* multiple_choice question without options and no short_answer question
\* with options.
C27_OptionsIffMultipleChoice ==
    \A q \in questions :
        (q.options # NULL /\ q.options[1] # <<>>) <=>
            (q.question_type = "multiple_choice")

\* C29: use_invite_link and get_active_invites_by_creator agree on expiry at
\* every instant: for every unused invite, at the current time the expiry
\* test of use_invite_link lets the invite pass if and only if the listing of
\* its creator contains it, also when the current time is expires_at.
C29_RedeemAgreesWithListing ==
    \A r \in invite_links :
        ~r.used =>
            (~IsExpired(r.expires_at, now) <=>
                (r \in SelectActive(r.created_by, isoformat(now))))

\* C28: when update_user_subscription, update_report_email_status or
\* delete_invite_link hits a storage fault, at the statement or at the commit,
\* the call returns False and its write is not applied: the table it
\* addresses is as before the call (and so is the targeted row in every later
\* state that no other call has written).
C28_FaultAppliesNothing ==
    [][\A fault \in FaultKinds \ {"none"}, retval \in BOOLEAN :
          /\ \A user_id \in UserIds, subscription_active \in BOOLEAN,
                subscription_expires \in SubscriptionExpiries :
                update_user_subscription(user_id, subscription_active,
                                         subscription_expires, fault, retval)
                    => (retval = FALSE /\ users' = users)
          /\ \A report_id \in ReportIds, emailed_to \in Addresses :
                update_report_email_status(report_id, emailed_to, fault, retval)
                    => (retval = FALSE /\ progress_reports' = progress_reports)
          /\ \A invite_id \in 1 .. MaxInvites :
                delete_invite_link(invite_id, fault, retval)
                    => (retval = FALSE /\ invite_links' = invite_links)]_vars

\* The rows of table T keep their ids, the rows other than id are unchanged
\* and the row id is unchanged once its new fields are put back (same(old,
\* new) is the new row with the fields the operation may write taken from old).
OnlyRowChanged(T, Tp, id, same(_, _)) ==
    /\ {r.id : r \in Tp} = {r.id : r \in T}
    /\ Cardinality(Tp) = Cardinality(T)
    /\ \A r \in T : \E q \in Tp :
          /\ q.id = r.id
          /\ IF r.id = id THEN same(r, q) = r ELSE q = r

SameButSubscription(r, q) ==
    [q EXCEPT !.subscription_active = r.subscription_active,
              !.subscription_expires = r.subscription_expires]

SameButCompletion(r, q) ==
    [q EXCEPT !.completed_at = r.completed_at, !.score = r.score,
              !.max_score = r.max_score]

SameButEmailStatus(r, q) ==
    [q EXCEPT !.emailed_to = r.emailed_to, !.emailed_at = r.emailed_at]

SameButUse(r, q) ==
    [q EXCEPT !.used = r.used, !.used_by = r.used_by, !.used_at = r.used_at]

\* C30: update_user_subscription changes nothing but subscription_active and
\* subscription_expires of the user it addresses, complete_quiz_attempt
\* nothing but completed_at, score and max_score of the attempt it addresses,
\* update_report_email_status nothing but emailed_to and emailed_at of the
\* report it addresses, use_invite_link nothing but used, used_by and used_at
\* of the invite it matched; no step changes the username, password_hash,
\* email or is_admin of a stored user.
C30_MutationFrames ==
    [][/\ \A user_id \in UserIds, subscription_active \in BOOLEAN,
             subscription_expires \in SubscriptionExpiries :
             update_user_subscription(user_id, subscription_active,
                                      subscription_expires, "none", TRUE) =>
                /\ OnlyRowChanged(users, users', user_id, SameButSubscription)
                /\ UNCHANGED <<invite_links, quizzes, questions, quiz_attempts,
                               question_responses, progress_reports>>
       /\ \A attempt_id \in AttemptIds :
             complete_quiz_attempt(attempt_id, 3, 5, TRUE) =>
                /\ OnlyRowChanged(quiz_attempts, quiz_attempts', attempt_id,
                                  SameButCompletion)
                /\ UNCHANGED <<users, invite_links, quizzes, questions,
                               question_responses, progress_reports>>
       /\ \A report_id \in ReportIds :
             update_report_email_status(report_id, "p@x", "none", TRUE) =>
                /\ OnlyRowChanged(progress_reports, progress_reports', report_id,
                                  SameButEmailStatus)
                /\ UNCHANGED <<users, invite_links, quizzes, questions,
                               quiz_attempts, question_responses>>
       /\ \A c \in Calls :
             /\ (\E token \in Tokens, user_id \in UserIds :
                    use_invite_link_select(c, token, user_id))
                  \/ use_invite_link_check(c)
                  => UNCHANGED <<users, invite_links, quizzes, questions,
                                 quiz_attempts, question_responses,
                                 progress_reports>>
             /\ use_invite_link_update(c) =>
                  /\ OnlyRowChanged(invite_links, invite_links',
                                    invite[c][1].id, SameButUse)
                  /\ UNCHANGED <<users, quizzes, questions, quiz_attempts,
                                 question_responses, progress_reports>>
       /\ \A u \in users : \E v \in users' :
             /\ v.id = u.id /\ v.username = u.username
             /\ v.password_hash = u.password_hash /\ v.email = u.email
             /\ v.is_admin = u.is_admin]_vars

\* C30 witness: each of the four operations has written one row of its table
\* while a second row of that table is as it was inserted.
C30_Witness ==
    /\ \E u, v \in users : /\ u.id = 1 /\ u.subscription_active
                           /\ u.subscription_expires # NULL
                           /\ v.id = 2 /\ ~v.subscription_active
                           /\ v.subscription_expires = NULL
    /\ \E a, b \in quiz_attempts : /\ a.completed_at # NULL /\ a.score = <<3>>
                                   /\ b.completed_at = NULL /\ b.score = NULL
    /\ \E r, q \in progress_reports : r.emailed_to = <<"p@x">> /\ q.emailed_to = NULL
    /\ \E r, q \in invite_links : r.used /\ r.used_by = <<2>> /\ ~q.used
====
